---- MODULE Spec2Model ----
(***************************************************************************)
(* Model of main.go: the split / upload / download / verify / merge demo   *)
(* for 0G Storage.  The file system is a function from paths to byte       *)
(* sequences, the helper functions (generateRandomFile, splitFile,         *)
(* filesEqual, mergeFiles) are operators computed the way the Go code      *)
(* computes them, and main is a sequential process cut at its calls.       *)
(***************************************************************************)
EXTENDS Integers, Sequences, FiniteSets, TLC

\* ------------------------------------------------------------------ bounds
\* Stand-in for TotalSize (1024 in the source), in bytes.
TotalSize == 3
\* Stand-in for FragmentSize (256 in the source), in bytes.
FragmentSize == 1
\* Stand-in for the 32 KiB comparison buffers of filesEqual.
BufSize == 2
\* Longest source file and largest chunk size tried on the helper functions.
MaxLen == 4
MaxChunk == 3
\* Local file-system failures injected into one run of main.
MaxFaults == 1

Bytes == {0, 1}

SeqsUpTo(n) == UNION {[1..k -> Bytes] : k \in 0..n}

Min(a, b) == IF a < b THEN a ELSE b

CeilDiv(t, f) == (t + f - 1) \div f

\* ------------------------------------------------------------- file system
\* A file system is a function whose domain is the set of existing paths.
EmptyFS == [p \in {} |-> <<>>]

Exists(fsys, p) == p \in DOMAIN fsys

WriteFile(fsys, p, d) ==
    [q \in (DOMAIN fsys) \cup {p} |-> IF q = p THEN d ELSE fsys[q]]

largeFileName == <<"large_data_1kb.bin", 0>>
mergedPath == <<"merged_1kb.bin", 0>>
partPath(i) == <<"part", i>>
downloadPath(i) == <<"downloaded_part", i>>

\* A failure of one file-system call: the call (op) and, for calls made in a
\* loop, the iteration (at, counted from 0) at which it fails.
NoFault == [op |-> "none", at |-> 0]
Fault(o, k) == [op |-> o, at |-> k]

\* ------------------------------------------------------ generateRandomFile
\* os.Create, then io.CopyN of `data`; a failed copy leaves the bytes written
\* so far (flt.at of them).
generateRandomFile(fsys, path, data, flt) ==
    IF flt.op = "create"
    THEN [fs |-> fsys, err |-> TRUE]
    ELSE IF flt.op = "copy"
    THEN [fs |-> WriteFile(fsys, path, SubSeq(data, 1, Min(flt.at, Len(data)))),
          err |-> TRUE]
    ELSE [fs |-> WriteFile(fsys, path, data), err |-> FALSE]

\* --------------------------------------------------------------- splitFile
\* file.Read on a regular file fills the buffer unless fewer bytes remain, and
\* returns (0, io.EOF) at the end of the file.
\* The read loop of splitFile from iteration i on: `off` bytes of `data` are
\* consumed, `paths` are the chunk files written so far.
RECURSIVE SplitLoop(_, _, _, _, _, _, _)
SplitLoop(fsys, data, off, i, chunkSize, flt, paths) ==
    LET bytesRead == Min(chunkSize, Len(data) - off)
        chunkName == partPath(i)
    IN  IF flt.op = "read" /\ flt.at = i
        THEN [paths |-> <<>>, fs |-> fsys, err |-> TRUE]
        ELSE IF bytesRead = 0
        THEN [paths |-> paths, fs |-> fsys, err |-> FALSE]
        ELSE IF flt.op = "write" /\ flt.at = i
        THEN [paths |-> <<>>, fs |-> fsys, err |-> TRUE]
        ELSE SplitLoop(WriteFile(fsys, chunkName, SubSeq(data, off + 1, off + bytesRead)),
                       data, off + bytesRead, i + 1, chunkSize, flt,
                       Append(paths, chunkName))

\* Variant of splitFile that loses a trailing chunk shorter than chunkSize.
splitFile_dropTail(fsys, srcPath, chunkSize, flt) ==
    IF flt.op = "open" \/ ~Exists(fsys, srcPath)
    THEN [paths |-> <<>>, fs |-> fsys, err |-> TRUE]
    ELSE SplitLoop(fsys, SubSeq(fsys[srcPath], 1, chunkSize * (Len(fsys[srcPath]) \div chunkSize)),
                   0, 0, chunkSize, flt, <<>>)

splitFile(fsys, srcPath, chunkSize, flt) ==
    IF flt.op = "open" \/ ~Exists(fsys, srcPath)
    THEN [paths |-> <<>>, fs |-> fsys, err |-> TRUE]
    ELSE SplitLoop(fsys, fsys[srcPath], 0, 0, chunkSize, flt, <<>>)

\* -------------------------------------------------------------- filesEqual
\* The comparison loop of filesEqual from iteration k on; off bytes of both
\* files are consumed.  Result: the returned boolean and the number of Read
\* calls made on each file.
RECURSIVE EqualLoop(_, _, _, _, _)
EqualLoop(d1, d2, off, k, flt) ==
    LET n1 == IF flt.op = "read1" /\ flt.at = k THEN 0 ELSE Min(BufSize, Len(d1) - off)
        n2 == IF flt.op = "read2" /\ flt.at = k THEN 0 ELSE Min(BufSize, Len(d2) - off)
        err1 == IF flt.op = "read1" /\ flt.at = k THEN "error"
                ELSE IF Len(d1) - off <= 0 THEN "EOF" ELSE "nil"
        err2 == IF flt.op = "read2" /\ flt.at = k THEN "error"
                ELSE IF Len(d2) - off <= 0 THEN "EOF" ELSE "nil"
        io == err1 = "error" \/ err2 = "error"
    IN  IF err1 = "EOF" /\ err2 = "EOF"
        THEN [res |-> "true", reads |-> k + 1, io |-> FALSE]
        ELSE IF err1 # "nil" \/ err2 # "nil"
        THEN [res |-> "false", reads |-> k + 1, io |-> io]
        ELSE IF n1 # n2
        THEN [res |-> "false", reads |-> k + 1, io |-> FALSE]
        ELSE IF \E x \in 1..n1 : d1[off + x] # d2[off + x]
        THEN [res |-> "false", reads |-> k + 1, io |-> FALSE]
        ELSE EqualLoop(d1, d2, off + n1, k + 1, flt)

\* Variant of filesEqual that stops after the size comparison.
filesEqual_sizeOnly(fsys, file1, file2, flt) ==
    IF flt.op = "open1" \/ ~Exists(fsys, file1)
    THEN [res |-> "false", reads |-> 0, io |-> TRUE]
    ELSE IF flt.op = "open2" \/ ~Exists(fsys, file2)
    THEN [res |-> "false", reads |-> 0, io |-> TRUE]
    ELSE IF flt.op \in {"stat1", "stat2"}
    THEN [res |-> "panic", reads |-> 0, io |-> TRUE]
    ELSE IF Len(fsys[file1]) # Len(fsys[file2])
    THEN [res |-> "false", reads |-> 0, io |-> FALSE]
    ELSE [res |-> "true", reads |-> 0, io |-> FALSE]

\* res is "true", "false", or "panic": the error of Stat is discarded, so a
\* failed Stat leaves a nil FileInfo whose Size() call dereferences nil.
\* reads counts the Read calls made on each file, io tells whether a
\* file-system call failed.
filesEqual(fsys, file1, file2, flt) ==
    IF flt.op = "open1" \/ ~Exists(fsys, file1)
    THEN [res |-> "false", reads |-> 0, io |-> TRUE]
    ELSE IF flt.op = "open2" \/ ~Exists(fsys, file2)
    THEN [res |-> "false", reads |-> 0, io |-> TRUE]
    ELSE IF flt.op \in {"stat1", "stat2"}
    THEN [res |-> "panic", reads |-> 0, io |-> TRUE]
    ELSE IF Len(fsys[file1]) # Len(fsys[file2])
    THEN [res |-> "false", reads |-> 0, io |-> FALSE]
    ELSE EqualLoop(fsys[file1], fsys[file2], 0, 0, flt)

\* -------------------------------------------------------------- mergeFiles
\* The copy loop of mergeFiles from input i (counted from 0) on; `out` is the
\* content of the output file so far.
RECURSIVE MergeLoop(_, _, _, _, _, _)
MergeLoop(fsys, filePaths, outputPath, i, out, flt) ==
    IF i >= Len(filePaths)
    THEN [fs |-> WriteFile(fsys, outputPath, out), err |-> FALSE]
    ELSE IF (flt.op = "openIn" /\ flt.at = i) \/ ~Exists(fsys, filePaths[i + 1])
    THEN [fs |-> WriteFile(fsys, outputPath, out), err |-> TRUE]
    ELSE IF flt.op = "copyIn" /\ flt.at = i
    THEN [fs |-> WriteFile(fsys, outputPath, out), err |-> TRUE]
    ELSE MergeLoop(fsys, filePaths, outputPath, i + 1, out \o fsys[filePaths[i + 1]], flt)

\* Variant of mergeFiles whose loop starts at the second input.
mergeFiles_skipFirst(fsys, filePaths, outputPath, flt) ==
    IF flt.op = "create"
    THEN [fs |-> fsys, err |-> TRUE]
    ELSE MergeLoop(fsys, filePaths, outputPath, 1, <<>>, flt)

mergeFiles(fsys, filePaths, outputPath, flt) ==
    IF flt.op = "create"
    THEN [fs |-> fsys, err |-> TRUE]
    ELSE MergeLoop(fsys, filePaths, outputPath, 0, <<>>, flt)

\* ------------------------------------------------------------------- state
VARIABLES
    pc,              \* position of main (or of the helper-function harness)
    exitCause,       \* which log.Fatal ended the run, "" if none
    workDir,         \* "absent" or "present": the directory temp_data
    fs,              \* the files under temp_data
    source,          \* outcome of generateRandomFile and the bytes it wrote
    fragments,       \* paths returned by splitFile
    fragData,        \* content of each fragment as split
    selCalls,        \* SelectNodes calls made so far, with their outcome
    selectedNodes,   \* result of the last SelectNodes call
    allNodes,        \* Trusted ++ Discovered
    putLog,          \* one entry per iteration of the upload loop
    rootHashes,      \* handles appended by the upload loop
    getLog,          \* one entry per iteration of the download loop
    downloadedFiles, \* paths appended by the download loop
    verdicts,        \* per-fragment comparison results printed
    mergeState,      \* "none", "skipped", "failed", "ok"
    wholeVerdict,    \* the printed merged-vs-original result, if any
    completed,       \* the closing line has been printed
    faults,          \* local file-system failures injected so far
    dirCreated,      \* MkdirAll has created temp_data in this run
    fnChunk,         \* harness: chunk size given to splitFile
    fnSplit,         \* harness: result of splitFile
    fnMerge,         \* harness: result of mergeFiles
    fnEq             \* harness: arguments and result of filesEqual

runVars == <<exitCause, workDir, source, fragments, fragData, selCalls,
             selectedNodes, allNodes, putLog, rootHashes, getLog,
             downloadedFiles, verdicts, mergeState, wholeVerdict, completed,
             faults, dirCreated>>
fnVars == <<fnChunk, fnSplit, fnMerge, fnEq>>
vars == <<pc, fs, runVars, fnVars>>

Nil == [Trusted |-> <<>>, Discovered |-> <<>>, nil |-> TRUE]
NoResult == [none |-> TRUE]

RunInit ==
    /\ exitCause = ""
    /\ workDir = "absent"
    /\ source = NoResult
    /\ fragments = <<>>
    /\ fragData = <<>>
    /\ selCalls = <<>>
    /\ selectedNodes = Nil
    /\ allNodes = <<>>
    /\ putLog = <<>>
    /\ rootHashes = <<>>
    /\ getLog = <<>>
    /\ downloadedFiles = <<>>
    /\ verdicts = <<>>
    /\ mergeState = "none"
    /\ wholeVerdict = NoResult
    /\ completed = FALSE
    /\ faults = 0
    /\ dirCreated = FALSE

FnInit ==
    /\ fnChunk = 0
    /\ fnSplit = NoResult
    /\ fnMerge = NoResult
    /\ fnEq = NoResult

\* ------------------------------------------- harness of the helper functions
\* splitFile, mergeFiles and filesEqual applied to every source of at most
\* MaxLen bytes and every chunk size in 1..MaxChunk, under every failure of
\* one file-system call.
SplitFaults(n) ==
    {NoFault, Fault("open", 0)}
        \cup {Fault("read", k) : k \in 0..n} \cup {Fault("write", k) : k \in 0..n}

MergeFaults(n) ==
    {NoFault, Fault("create", 0)}
        \cup {Fault("openIn", k) : k \in 0..n} \cup {Fault("copyIn", k) : k \in 0..n}

EqualFaults(n) ==
    {NoFault} \cup {Fault(o, 0) : o \in {"open1", "open2", "stat1", "stat2"}}
        \cup {Fault(o, k) : o \in {"read1", "read2"}, k \in 0..n}

missingPath == <<"missing", 0>>

InitFn ==
    /\ pc = "fn_split"
    /\ \E data \in SeqsUpTo(MaxLen) : fs = WriteFile(EmptyFS, largeFileName, data)
    /\ RunInit
    /\ fnChunk \in 1..MaxChunk
    /\ fnSplit = NoResult
    /\ fnMerge = NoResult
    /\ fnEq = NoResult

FnSplit ==
    /\ pc = "fn_split"
    /\ \E flt \in SplitFaults(MaxLen) :
         LET r == splitFile(fs, largeFileName, fnChunk, flt)
         IN  /\ fnSplit' = [paths |-> r.paths, err |-> r.err, flt |-> flt]
             /\ fs' = r.fs
             /\ pc' = IF r.err THEN "fn_done" ELSE "fn_merge"
    /\ UNCHANGED <<runVars, fnChunk, fnMerge, fnEq>>

FnMerge ==
    /\ pc = "fn_merge"
    /\ \E flt \in MergeFaults(Len(fnSplit.paths)) :
         LET r == mergeFiles(fs, fnSplit.paths, mergedPath, flt)
         IN  /\ fnMerge' = [err |-> r.err]
             /\ fs' = r.fs
             /\ pc' = IF r.err THEN "fn_done" ELSE "fn_equal"
    /\ UNCHANGED <<runVars, fnChunk, fnSplit, fnEq>>

FnEqual ==
    /\ pc = "fn_equal"
    /\ \E file1 \in (DOMAIN fs) \cup {missingPath}, file2 \in (DOMAIN fs) \cup {missingPath},
          flt \in EqualFaults(MaxLen \div BufSize + 1) :
         fnEq' = [file1 |-> file1, file2 |-> file2, flt |-> flt,
                  out |-> filesEqual(fs, file1, file2, flt)]
    /\ pc' = "fn_done"
    /\ UNCHANGED <<runVars, fs, fnChunk, fnSplit, fnMerge>>

NextFn == FnSplit \/ FnMerge \/ FnEqual

SpecFn == InitFn /\ [][NextFn]_vars

\* -------------------------------------------------------------------- main
\* Failures the run may inject into one call, within the budget of MaxFaults.
Budget(S) == IF faults < MaxFaults THEN S ELSE {NoFault}
Spent(flt) == IF flt = NoFault THEN 0 ELSE 1

\* log.Fatal / log.Fatalf: os.Exit(1), deferred calls are not run.
Fatal(cause) ==
    /\ pc' = "fatal"
    /\ exitCause' = cause

\* indexer.NewClient (fatal on error), then os.MkdirAll, whose error is
\* ignored, and the deferred os.RemoveAll is registered.
InitClients ==
    /\ pc = "start"
    /\ \/ /\ Fatal("indexer")
          /\ UNCHANGED <<workDir, dirCreated, faults>>
       \/ /\ pc' = "generate"
          /\ \E flt \in Budget({NoFault, Fault("mkdir", 0)}) :
               /\ workDir' = IF flt = NoFault THEN "present" ELSE "absent"
               /\ dirCreated' = (flt = NoFault)
               /\ faults' = faults + Spent(flt)
          /\ UNCHANGED exitCause
    /\ UNCHANGED <<fs, source, fragments, fragData, selCalls, selectedNodes, allNodes,
                   putLog, rootHashes, getLog, downloadedFiles, verdicts, mergeState,
                   wholeVerdict, completed, fnVars>>

GenFaults ==
    {NoFault, Fault("create", 0)} \cup {Fault("copy", k) : k \in 0..(TotalSize - 1)}

\* Variant of AfterGenerate that logs the error and goes on.
AfterGenerate_continue(err) == "split"

AfterGenerate(err) == IF err THEN "fatal" ELSE "split"

\* generateRandomFile(largeFileName, TotalSize); an error is fatal.
Generate ==
    /\ pc = "generate"
    /\ \E data \in [1..TotalSize -> Bytes],
          flt \in (IF workDir = "absent" THEN {Fault("create", 0)} ELSE Budget(GenFaults)) :
         LET r == generateRandomFile(fs, largeFileName, data, flt)
         IN  /\ fs' = r.fs
             /\ source' = [err |-> r.err, data |-> IF r.err THEN <<>> ELSE data]
             /\ faults' = faults + (IF workDir = "absent" THEN 0 ELSE Spent(flt))
             /\ pc' = AfterGenerate(r.err)
             /\ exitCause' = IF r.err THEN "generate" ELSE exitCause
    /\ UNCHANGED <<workDir, dirCreated, fragments, fragData, selCalls, selectedNodes,
                   allNodes, putLog, rootHashes, getLog, downloadedFiles, verdicts,
                   mergeState, wholeVerdict, completed, fnVars>>

\* splitFile(largeFileName, FragmentSize, workDir); an error is fatal.
Split ==
    /\ pc = "split"
    /\ \E flt \in Budget(SplitFaults(CeilDiv(TotalSize, FragmentSize))) :
         LET r == splitFile(fs, largeFileName, FragmentSize, flt)
         IN  /\ fs' = r.fs
             /\ fragments' = r.paths
             /\ fragData' = [i \in 1..Len(r.paths) |-> r.fs[r.paths[i]]]
             /\ faults' = faults + Spent(flt)
             /\ pc' = IF r.err THEN "fatal" ELSE "select"
             /\ exitCause' = IF r.err THEN "split" ELSE exitCause
    /\ UNCHANGED <<workDir, dirCreated, source, selCalls, selectedNodes, allNodes,
                   putLog, rootHashes, getLog, downloadedFiles, verdicts, mergeState,
                   wholeVerdict, completed, fnVars>>

\* The four SelectNodes calls of main, in the order the code nests them.
SelectArgs ==
    << [method |-> "", fullTrusted |-> TRUE],
       [method |-> "", fullTrusted |-> FALSE],
       [method |-> "random", fullTrusted |-> TRUE],
       [method |-> "random", fullTrusted |-> FALSE] >>

NodeSets ==
    { [Trusted |-> <<>>, Discovered |-> <<>>, nil |-> FALSE],
      [Trusted |-> <<"t1">>, Discovered |-> <<"d1">>, nil |-> FALSE] }

\* Variant of AfterSelect that gives up after the third combination.
AfterSelect_giveUpEarly(k, err) ==
    IF ~err THEN "nodes" ELSE IF k < 3 THEN "select" ELSE "fatal"

\* Where main goes after call k returned: on to the node list on success,
\* into the next nested call on failure, log.Fatalf after the fourth failure.
AfterSelect(k, err) ==
    IF ~err THEN "nodes" ELSE IF k < Len(SelectArgs) THEN "select" ELSE "fatal"

\* Which result main holds in selectedNodes after a call returned.
AssignSelected(old, result) == result

\* One call indexerClient.SelectNodes(ctx, ReplicaNum, nil, method, fullTrusted).
SelectNodes ==
    /\ pc = "select"
    /\ LET k == Len(selCalls) + 1
       IN  \E r \in {[err |-> TRUE, nodes |-> Nil]}
                      \cup {[err |-> FALSE, nodes |-> ns] : ns \in NodeSets} :
             /\ selCalls' = Append(selCalls, [method |-> SelectArgs[k].method,
                                              fullTrusted |-> SelectArgs[k].fullTrusted,
                                              err |-> r.err, nodes |-> r.nodes])
             /\ selectedNodes' = AssignSelected(selectedNodes, r.nodes)
             /\ pc' = AfterSelect(k, r.err)
             /\ exitCause' = IF AfterSelect(k, r.err) = "fatal" THEN "select" ELSE exitCause
    /\ UNCHANGED <<workDir, dirCreated, fs, source, fragments, fragData, allNodes, putLog,
                   rootHashes, getLog, downloadedFiles, verdicts, mergeState,
                   wholeVerdict, completed, faults, fnVars>>

\* allNodes := append(Trusted, Discovered...); an empty list is fatal.
CombineNodes ==
    /\ pc = "nodes"
    /\ allNodes' = selectedNodes.Trusted \o selectedNodes.Discovered
    /\ IF Len(allNodes') = 0
       THEN Fatal("nodes")
       ELSE pc' = "upload" /\ UNCHANGED exitCause
    /\ UNCHANGED <<workDir, dirCreated, fs, source, fragments, fragData, selCalls,
                   selectedNodes, putLog, rootHashes, getLog, downloadedFiles, verdicts,
                   mergeState, wholeVerdict, completed, faults, fnVars>>

\* The Merkle root UploadFile returns identifies the content uploaded.
RootOf(data) == data

\* Variant of NextRootHashes that appends the (empty) root of a failed upload.
NextRootHashes_appendAlways(rh, i, ok, root) ==
    Append(rh, [root |-> IF ok THEN root ELSE <<>>, origin |-> i])

\* rootHashes after one iteration of the upload loop on fragment i (from 0).
NextRootHashes(rh, i, ok, root) ==
    IF ok THEN Append(rh, [root |-> root, origin |-> i]) ELSE rh

\* One iteration of the upload loop: NewUploader, then UploadFile; either
\* failure is logged and the loop continues with the next fragment.
Upload ==
    /\ pc = "upload"
    /\ Len(putLog) < Len(fragments)
    /\ LET i == Len(putLog)
           fragPath == fragments[i + 1]
       IN  \E outcome \in {"newUploaderFailed", "uploadFailed", "ok"} :
             /\ putLog' = Append(putLog, [frag |-> i, outcome |-> outcome])
             /\ rootHashes' = NextRootHashes(rootHashes, i, outcome = "ok", RootOf(fs[fragPath]))
    /\ UNCHANGED <<pc, exitCause, workDir, dirCreated, fs, source, fragments, fragData,
                   selCalls, selectedNodes, allNodes, getLog, downloadedFiles, verdicts,
                   mergeState, wholeVerdict, completed, faults, fnVars>>

\* transfer.NewDownloader(allNodes) after the upload loop; an error is fatal.
NewDownloader ==
    /\ pc = "upload"
    /\ Len(putLog) = Len(fragments)
    /\ \/ Fatal("downloader")
       \/ pc' = "download" /\ UNCHANGED exitCause
    /\ UNCHANGED <<workDir, dirCreated, fs, source, fragments, fragData, selCalls,
                   selectedNodes, allNodes, putLog, rootHashes, getLog, downloadedFiles,
                   verdicts, mergeState, wholeVerdict, completed, faults, fnVars>>

\* What the store may hand back for a root: the content stored under it, or
\* that content with one byte flipped, its last byte dropped, or a byte added.
StoreReturns(data) ==
    {data}
        \cup {[data EXCEPT ![k] = 1 - data[k]] : k \in 1..Len(data)}
        \cup (IF Len(data) > 0 THEN {SubSeq(data, 1, Len(data) - 1)} ELSE {})
        \cup {Append(data, b) : b \in Bytes}

\* Variant of AfterVerify in which a mismatch ends the run with log.Fatal.
AfterVerify_stopOnMismatch(res, next) ==
    IF res = "panic" THEN "panicking" ELSE IF res = "false" THEN "fatal" ELSE next

\* Where main goes after a comparison: a nil dereference unwinds main, a
\* true or false result is printed and main goes on.
AfterVerify(res, next) == IF res = "panic" THEN "panicking" ELSE next

\* One iteration of the download loop on rootHashes[i]: Download to
\* downloaded_part_<i>.bin; on failure log and continue; on success append the
\* path and compare the download with fragments[i].
Download ==
    /\ pc = "download"
    /\ Len(getLog) < Len(rootHashes)
    /\ LET i == Len(getLog)
           root == rootHashes[i + 1]
       IN  \/ /\ getLog' = Append(getLog, [root |-> root, ok |-> FALSE, bytes |-> <<>>])
              /\ UNCHANGED <<pc, fs, downloadedFiles, verdicts, faults>>
           \/ \E got \in StoreReturns(root.root),
                 flt \in Budget(EqualFaults(FragmentSize \div BufSize + 1)) :
                LET fs1 == WriteFile(fs, downloadPath(i), got)
                    originalPath == fragments[i + 1]
                    eq == filesEqual(fs1, originalPath, downloadPath(i), flt)
                IN  /\ getLog' = Append(getLog, [root |-> root, ok |-> TRUE, bytes |-> got])
                    /\ fs' = fs1
                    /\ downloadedFiles' = Append(downloadedFiles, downloadPath(i))
                    /\ faults' = faults + Spent(flt)
                    /\ verdicts' = IF eq.res = "panic" THEN verdicts
                                   ELSE Append(verdicts, [idx |-> i, origin |-> root.origin,
                                                          res |-> eq.res, io |-> eq.io])
                    /\ pc' = AfterVerify(eq.res, "download")
    /\ UNCHANGED <<exitCause, workDir, dirCreated, source, fragments, fragData, selCalls,
                   selectedNodes, allNodes, putLog, rootHashes, mergeState, wholeVerdict,
                   completed, fnVars>>

\* Where main goes after mergeFiles returned: an error is logged with
\* log.Printf and the comparison is skipped.
AfterMerge(err) == IF err THEN "finish" ELSE "verify_whole"

\* After the download loop: mergeFiles(downloadedFiles, mergedPath) when at
\* least one file was downloaded.
Merge ==
    /\ pc = "download"
    /\ Len(getLog) = Len(rootHashes)
    /\ IF Len(downloadedFiles) > 0
       THEN \E flt \in Budget(MergeFaults(Len(downloadedFiles) - 1)) :
              LET r == mergeFiles(fs, downloadedFiles, mergedPath, flt)
              IN  /\ fs' = r.fs
                  /\ mergeState' = IF r.err THEN "failed" ELSE "ok"
                  /\ faults' = faults + Spent(flt)
                  /\ pc' = AfterMerge(r.err)
       ELSE /\ mergeState' = "skipped"
            /\ pc' = "finish"
            /\ UNCHANGED <<fs, faults>>
    /\ UNCHANGED <<exitCause, workDir, dirCreated, source, fragments, fragData, selCalls,
                   selectedNodes, allNodes, putLog, rootHashes, getLog, downloadedFiles,
                   verdicts, wholeVerdict, completed, fnVars>>

\* filesEqual(largeFileName, mergedPath), its result printed.
VerifyWhole ==
    /\ pc = "verify_whole"
    /\ \E flt \in Budget(EqualFaults(TotalSize \div BufSize + 1)) :
         LET eq == filesEqual(fs, largeFileName, mergedPath, flt)
         IN  /\ wholeVerdict' = IF eq.res = "panic" THEN wholeVerdict
                                ELSE [res |-> eq.res, io |-> eq.io]
             /\ faults' = faults + Spent(flt)
             /\ pc' = AfterVerify(eq.res, "finish")
    /\ UNCHANGED <<exitCause, workDir, dirCreated, fs, source, fragments, fragData,
                   selCalls, selectedNodes, allNodes, putLog, rootHashes, getLog,
                   downloadedFiles, verdicts, mergeState, completed, fnVars>>

\* The closing line of main is printed.
Finish ==
    /\ pc = "finish"
    /\ completed' = TRUE
    /\ pc' = "return"
    /\ UNCHANGED <<exitCause, workDir, dirCreated, fs, source, fragments, fragData,
                   selCalls, selectedNodes, allNodes, putLog, rootHashes, getLog,
                   downloadedFiles, verdicts, mergeState, wholeVerdict, faults, fnVars>>

\* main returns, or a panic unwinds it: the deferred os.RemoveAll(workDir) runs.
RunDeferred ==
    /\ pc \in {"return", "panicking"}
    /\ fs' = EmptyFS
    /\ workDir' = "absent"
    /\ pc' = IF pc = "return" THEN "exited" ELSE "crashed"
    /\ UNCHANGED <<exitCause, dirCreated, source, fragments, fragData, selCalls,
                   selectedNodes, allNodes, putLog, rootHashes, getLog, downloadedFiles,
                   verdicts, mergeState, wholeVerdict, completed, faults, fnVars>>

Init ==
    /\ pc = "start"
    /\ fs = EmptyFS
    /\ RunInit
    /\ FnInit

Next ==
    \/ InitClients
    \/ Generate
    \/ Split
    \/ SelectNodes
    \/ CombineNodes
    \/ Upload
    \/ NewDownloader
    \/ Download
    \/ Merge
    \/ VerifyWhole
    \/ Finish
    \/ RunDeferred

Spec == Init /\ [][Next]_vars

\* main is one goroutine: whenever a step is possible, it is taken.
FairSpec == Spec /\ WF_vars(Next)

\* ------------------------------------------------- claims on the helpers
RECURSIVE SumLen(_, _)
SumLen(fsys, paths) ==
    IF paths = <<>> THEN 0 ELSE Len(fsys[Head(paths)]) + SumLen(fsys, Tail(paths))

SplitReturned == fnSplit # NoResult /\ ~fnSplit.err

\* C1: for a source of T >= 0 bytes and a chunk size F > 0, splitFile returns
\* ceil(T/F) fragments (none, and no error, when T = 0), in increasing offset
\* order, every one but the last of F bytes, the last of T - F*(n-1) bytes,
\* and the lengths sum to T.  Without a file-system failure it returns no error.
C1_SplitShape ==
    LET T == Len(fs[largeFileName])
        F == fnChunk
        n == Len(fnSplit.paths)
    IN  /\ (fnSplit # NoResult /\ fnSplit.flt = NoFault) => ~fnSplit.err
        /\ SplitReturned =>
             /\ n = CeilDiv(T, F)
             /\ T = 0 => fnSplit.paths = <<>>
             /\ \A i \in 1..n :
                  /\ fnSplit.paths[i] = partPath(i - 1)
                  /\ fs[fnSplit.paths[i]] = SubSeq(fs[largeFileName], F * (i - 1) + 1, Min(F * i, T))
                  /\ i < n => Len(fs[fnSplit.paths[i]]) = F
                  /\ i = n => Len(fs[fnSplit.paths[i]]) = T - F * (n - 1)
             /\ SumLen(fs, fnSplit.paths) = T

\* A split of a source whose length is no multiple of the chunk size.
C1_Witness ==
    /\ SplitReturned
    /\ Len(fnSplit.paths) >= 2
    /\ Len(fs[largeFileName]) % fnChunk # 0

MergeReturned == fnMerge # NoResult /\ ~fnMerge.err

\* C2: mergeFiles applied to the list splitFile returned, in that order,
\* writes a file byte-for-byte equal to the source, and filesEqual(source,
\* merged) is true.
C2_RoundTrip ==
    /\ MergeReturned =>
         /\ fs[mergedPath] = fs[largeFileName]
         /\ filesEqual(fs, largeFileName, mergedPath, NoFault).res = "true"
    /\ (fnEq # NoResult /\ fnEq.file1 = largeFileName /\ fnEq.file2 = mergedPath
          /\ fnEq.flt = NoFault) => fnEq.out.res = "true"

\* A source of several fragments, merged and compared with the source.
C2_Witness ==
    /\ MergeReturned
    /\ Len(fnSplit.paths) >= 2
    /\ fnEq # NoResult /\ fnEq.file1 = largeFileName /\ fnEq.file2 = mergedPath
    /\ fnEq.flt = NoFault /\ fnEq.out.res = "true"

Openable(c) ==
    /\ Exists(fs, c.file1) /\ Exists(fs, c.file2)
    /\ c.flt.op \notin {"open1", "open2"}

\* C7: filesEqual returns true iff both inputs can be opened and read, have
\* the same length and the same bytes; a length mismatch returns false before
\* any byte is read; a failed open, stat or read yields false, never a crash.
C7_FilesEqualTotal ==
    fnEq # NoResult =>
        /\ fnEq.out.res \in {"true", "false"}
        /\ fnEq.out.res = "true" <=>
             (Openable(fnEq) /\ ~fnEq.out.io /\ fs[fnEq.file1] = fs[fnEq.file2])
        /\ fnEq.out.io => fnEq.out.res = "false"
        /\ (Openable(fnEq) /\ Len(fs[fnEq.file1]) # Len(fs[fnEq.file2])) =>
             (fnEq.out.res = "false" /\ fnEq.out.reads = 0)

\* ----------------------------------------------------- claims on the run
Ended == pc \in {"fatal", "exited", "crashed"}

\* C3: on every exit path after the working directory was created, fatal
\* exits included, the directory and every file in it are gone at the end.
C3_CleanupOnEveryExit ==
    (Ended /\ dirCreated) => (workDir = "absent" /\ fs = EmptyFS)

C9_Order == << <<"", TRUE>>, <<"", FALSE>>, <<"random", TRUE>>, <<"random", FALSE>> >>

SelectionDone == selCalls # <<>> /\ ~selCalls[Len(selCalls)].err

PastSelection ==
    \/ pc \in {"nodes", "upload", "download", "verify_whole", "finish", "return",
               "panicking", "exited", "crashed"}
    \/ exitCause \in {"nodes", "downloader"}

\* C9: node selection calls the combinations ("", true), ("", false),
\* ("random", true), ("random", false) in this order, each only after all
\* earlier ones failed; the first success ends the chain and its node set is
\* the one used; selection aborts the run only when all four failed.
C9_SelectionChain ==
    /\ Len(selCalls) <= 4
    /\ \A k \in 1..Len(selCalls) :
         /\ <<selCalls[k].method, selCalls[k].fullTrusted>> = C9_Order[k]
         /\ k < Len(selCalls) => selCalls[k].err
    /\ SelectionDone => pc # "select"
    /\ PastSelection => (SelectionDone /\ selectedNodes = selCalls[Len(selCalls)].nodes)
    /\ exitCause = "select" <=>
         (Len(selCalls) = 4 /\ \A k \in 1..4 : selCalls[k].err)

\* The third combination succeeded after two failures and its nodes are used.
C9_Witness ==
    /\ pc = "upload"
    /\ Len(selCalls) = 3
    /\ allNodes = selCalls[3].nodes.Trusted \o selCalls[3].nodes.Discovered

PastUpload ==
    \/ pc \in {"download", "verify_whole", "finish", "return", "panicking", "exited",
               "crashed"}
    \/ exitCause = "downloader"

PutOk == SelectSeq(putLog, LAMBDA e : e.outcome = "ok")

\* C5: a failed Put is neither retried nor fatal: every fragment gets exactly
\* one Put, in order; rootHashes holds exactly the handles of the fragments
\* whose Put succeeded, in fragment order; the download loop issues one Get
\* per entry of rootHashes.
C5_SkipAndContinue ==
    /\ Len(putLog) <= Len(fragments)
    /\ \A k \in 1..Len(putLog) : putLog[k].frag = k - 1
    /\ PastUpload => Len(putLog) = Len(fragments)
    /\ Len(rootHashes) = Len(PutOk)
    /\ \A j \in 1..Len(rootHashes) :
         /\ rootHashes[j].origin = PutOk[j].frag
         /\ rootHashes[j].root = RootOf(fragData[PutOk[j].frag + 1])
    /\ Len(getLog) <= Len(rootHashes)
    /\ \A j \in 1..Len(getLog) : getLog[j].root = rootHashes[j]
    /\ mergeState # "none" => Len(getLog) = Len(rootHashes)

\* Put failed for the middle fragment only; both remaining handles were fetched.
C5_Witness ==
    /\ Len(putLog) = Len(fragments)
    /\ Len(putLog) >= 3
    /\ putLog[2].outcome # "ok"
    /\ \A k \in 1..Len(putLog) : k # 2 => putLog[k].outcome = "ok"
    /\ mergeState # "none"
    /\ Len(getLog) = Len(fragments) - 1

\* C10: under every pattern of Put and Get failures each per-fragment
\* verification compares the download of a handle with the fragment whose Put
\* returned that handle (so a download identical to that fragment verifies
\* true), and the index used for the downloaded file, the original fragment
\* and the merge position is that fragment's index.
C10_Correspondence ==
    \A k \in 1..Len(verdicts) :
        LET v == verdicts[k]
            got == getLog[v.idx + 1].bytes
        IN  /\ v.idx = v.origin
            /\ (~v.io /\ got = fragData[v.origin + 1]) => v.res = "true"

\* C8 as stated: a file I/O failure in generateRandomFile or in mergeFiles is
\* fatal; after a failed merge no whole-file verification is run and the run
\* does not go on to report completion.
C8_MergeFailureFatal ==
    /\ (source # NoResult /\ source.err) => pc = "fatal"
    /\ mergeState = "failed" => (wholeVerdict = NoResult /\ ~completed /\ pc # "exited")

\* C8 amended: a failure of generateRandomFile is fatal, the run stops there
\* and no later stage is performed; a failure of mergeFiles is logged, the
\* whole-file verification is skipped, and the run goes on to print its
\* closing line and return.
C8_GeneratorFatalMergeLogged ==
    /\ (source # NoResult /\ source.err) =>
         /\ pc = "fatal" /\ exitCause = "generate"
         /\ fragments = <<>> /\ selCalls = <<>> /\ putLog = <<>> /\ getLog = <<>>
         /\ mergeState = "none" /\ wholeVerdict = NoResult /\ ~completed
    /\ mergeState = "failed" =>
         /\ wholeVerdict = NoResult
         /\ pc \in {"finish", "return", "exited"}
         /\ pc \in {"return", "exited"} => completed

\* mergeFiles failed and the run still printed its closing line and returned.
C8_Witness ==
    /\ mergeState = "failed"
    /\ pc = "exited"
    /\ completed

GetOk == SelectSeq(getLog, LAMBDA e : e.ok)

\* C6 as stated, on the final state of a run: a run that got past node
\* selection and met only Put failures, Get failures and mismatches has
\* reported the whole-file checkpoint when it ends.
C6_WholeFileAlwaysReported ==
    (pc = "exited" /\ faults = 0) => (completed /\ wholeVerdict # NoResult)

\* C6 amended: once the downloader has been created, under every pattern of
\* Put failures, Get failures and verification mismatches the run ends, and
\* it ends by returning after its closing line unless a comparison crashed on
\* a failed Stat; at the end every fragment that was downloaded has a
\* reported verdict, and the whole-file verdict is reported exactly when at
\* least one fragment was downloaded and the merge succeeded.
C6_ReachesDone ==
    /\ (pc = "download") ~> (pc = "exited" \/ (pc = "crashed" /\ faults > 0))
    /\ [](pc = "exited" =>
            /\ completed
            /\ Len(verdicts) = Len(GetOk)
            /\ Len(getLog) = Len(rootHashes)
            /\ wholeVerdict # NoResult <=> (Len(GetOk) > 0 /\ mergeState = "ok"))

\* A run in which a download came back different from its fragment and which
\* still returned with the whole-file verdict reported.
C6_Witness ==
    /\ pc = "exited"
    /\ faults = 0
    /\ \E k \in 1..Len(verdicts) : verdicts[k].res = "false"
    /\ \E j \in 1..Len(putLog) : putLog[j].outcome # "ok"
    /\ \E j \in 1..Len(getLog) : ~getLog[j].ok
    /\ wholeVerdict # NoResult /\ wholeVerdict.res = "false"

AllPutGetOk ==
    /\ Len(putLog) = Len(fragments)
    /\ \A k \in 1..Len(putLog) : putLog[k].outcome = "ok"
    /\ \A j \in 1..Len(getLog) : getLog[j].ok

RECURSIVE Concat(_)
Concat(ss) == IF ss = <<>> THEN <<>> ELSE Head(ss) \o Concat(Tail(ss))

Downloaded == [j \in 1..Len(getLog) |-> getLog[j].bytes]

\* C4 as stated: when every Put and Get succeeds, fragment i's verification
\* is true iff its download is identical to fragment i, and the whole-file
\* verification is true iff every fragment came back identical.
C4_WholeIffEveryFragment ==
    (AllPutGetOk /\ faults = 0) =>
        /\ \A k \in 1..Len(verdicts) :
             verdicts[k].res = "true" <=> getLog[k].bytes = fragData[k]
        /\ wholeVerdict # NoResult =>
             (wholeVerdict.res = "true" <=>
                \A j \in 1..Len(getLog) : getLog[j].bytes = fragData[j])

\* C4 amended: when every Put and Get succeeds, each reported verification of
\* fragment i is true iff its comparison met no I/O failure and the download
\* is identical to fragment i; the reported whole-file verification is true
\* iff its comparison met no I/O failure and the downloads, concatenated in
\* order, equal the source, which, when every download has its fragment's
\* length, is the case iff every fragment came back identical.
C4_VerdictsExact ==
    AllPutGetOk =>
        /\ \A k \in 1..Len(verdicts) :
             /\ verdicts[k].idx = k - 1
             /\ verdicts[k].res = "true" <=>
                  (~verdicts[k].io /\ getLog[k].bytes = fragData[k])
        /\ wholeVerdict # NoResult =>
             /\ wholeVerdict.res = "true" <=>
                  (~wholeVerdict.io /\ Concat(Downloaded) = source.data)
             /\ (\A j \in 1..Len(getLog) : Len(getLog[j].bytes) = Len(fragData[j])) =>
                  (Concat(Downloaded) = source.data <=>
                     \A j \in 1..Len(getLog) : getLog[j].bytes = fragData[j])

\* Only the last fragment came back with one byte flipped: its verification
\* is false, the others are true, the whole-file verification is false.
C4_Witness ==
    /\ AllPutGetOk /\ faults = 0 /\ pc = "exited"
    /\ Len(verdicts) = Len(fragments) /\ Len(verdicts) >= 2
    /\ \A k \in 1..Len(verdicts) :
         /\ Len(getLog[k].bytes) = Len(fragData[k])
         /\ verdicts[k].res = (IF k = Len(verdicts) THEN "false" ELSE "true")
    /\ wholeVerdict # NoResult /\ wholeVerdict.res = "false"

====
